---- MODULE Spec2Model ----
(***************************************************************************)
(* State-machine model of the `crank run` command (src/src/commands/run.ts).*)
(* The file holds two revisions of the Run command: the single-scenario    *)
(* revision (lines 13-108) and the batch revision (lines 129-352).  The    *)
(* variable `version` selects which revision a behaviour follows.          *)
(*                                                                         *)
(* Timer, CogManager, Scenario and StepAwareCommand.runStep/runSteps are   *)
(* collaborators whose code is outside src/; they are modelled from the    *)
(* specification (sections 3, 4.1, 4.2, 4.3, 5).                           *)
(***************************************************************************)
EXTENDS Integers, Sequences, FiniteSets, Bags, TLC

\* Bound: total number of steps (step-units) in the scenarios of one run.
MaxUnits == 3

\* The kinds of step an input scenario may contain.  `client` is the client
\* handle, 0 while unset; a failAfter of 0 means "no deadline".
StepTypes ==
  { [cog |-> 1, waitFor |-> 0, failAfter |-> 0, client |-> 0],
    [cog |-> 2, waitFor |-> 1, failAfter |-> 1, client |-> 0] }

\* RunStepResponse.Outcome
Outcomes == {"PASSED", "FAILED", "ERROR"}

VARIABLES
  version,        \* "single" | "batch": which revision of Run is executing
  isDirectory,    \* input: args.file names a directory
  files,          \* input: the scenario files found, each a sequence of delimited runs
  scenarios,      \* run(): `scenarios` (line 173), filled by parseScenarioFiles
  pc,             \* position of the command's control flow
  cur,            \* 1-based position of the outer mapSeries (0 before it starts)
  index,          \* 0-based `index` of the inner mapSeries
  stepRunner,     \* the step handed to runStep / runSteps for the current element
  status,         \* per sub-step <<scenario, element, sub>>: pending (not begun),
                  \* waiting (delay running), inflight (RPC awaited), done
  arrival,        \* responses of the current element, in completion order
  outcomes,       \* what runStep/runSteps settled with for the last element
                  \* (the awaited value, or `e` of the catch branch)
  rejection,      \* the {innerIndex, stepIndex} object passed to reject()
  abortedAt,      \* per scenario: the `index` its failing element had, else -1
  timers,         \* the per-scenario Timer objects, in creation order
  overallTimer,   \* overallTimer (line 219)
  exitCode,       \* process.exitCode (0 while unset)
  scenarioState,  \* per scenario: PENDING / RUNNING / COMPLETED / ABORTED
  inflight,       \* RPCs issued and not yet answered (abandoned ones included)
  rpcLog,         \* bag of every RPC ever issued
  skipped,        \* sub-steps printed as skipped and counted by addSkippedStep
  stopCalls,      \* number of cogManager.stopAllCogs() invocations
  sessions,       \* bag of connector ids: the live sessions of the CogManager
  setupError,     \* the setup try-block threw (lines 183-204)
  thrown          \* run() itself threw (unexpected error)

vars == << version, isDirectory, files, scenarios, pc, cur, index, stepRunner,
           status, arrival, outcomes, rejection, abortedAt, timers, overallTimer,
           exitCode, scenarioState, inflight, rpcLog, skipped, stopCalls, sessions,
           setupError, thrown >>

----------------------------------------------------------------------------
(* Inputs *)

\* A plan element that is a single step (`step` is a RunnerStep).
SingleElements == { [group |-> FALSE, steps |-> <<s>>] : s \in StepTypes }

\* A plan element that is a group of k steps (`step` is a RunnerStep[]).
GroupElements(k) == { [group |-> TRUE, steps |-> ss] : ss \in [1..k -> StepTypes] }

\* Plan elements holding exactly k steps; a group merges at least two steps.
ElementsOf(k) == IF k = 1 THEN SingleElements ELSE GroupElements(k)

\* Optimized plans holding exactly u steps.
RECURSIVE PlansOf(_)
PlansOf(u) ==
  IF u = 0 THEN { <<>> }
  ELSE UNION { { <<el>> \o p : el \in ElementsOf(k), p \in PlansOf(u - k) } : k \in 1..u }

\* Batches of non-empty plans holding exactly u steps in total.
RECURSIVE BatchesOf(_)
BatchesOf(u) ==
  IF u = 0 THEN { <<>> }
  ELSE UNION { { <<p>> \o b : p \in PlansOf(k), b \in BatchesOf(u - k) } : k \in 1..u }

Inputs == UNION { BatchesOf(u) : u \in 0..MaxUnits }

----------------------------------------------------------------------------
(* Helpers *)

Range(f) == { f[x] : x \in DOMAIN f }

Plan(s) == scenarios[s].optimizedSteps

\* Number of step-units of a plan: 1 per single step, N per N-member group.
RECURSIVE UnitCount(_)
UnitCount(plan) ==
  IF plan = <<>> THEN 0 ELSE Len(Head(plan).steps) + UnitCount(Tail(plan))

\* Every sub-step of a list of scenarios, as <<scenario, element, sub>>.
UnitsOf(scns) ==
  UNION { UNION { { <<s, e, i>> : i \in 1..Len(scns[s].optimizedSteps[e].steps) }
                  : e \in 1..Len(scns[s].optimizedSteps) }
          : s \in 1..Len(scns) }

\* The element the inner mapSeries is at, and its sub-steps.
CurElement == Plan(cur)[index + 1]
CurUnits == { <<cur, index + 1, i>> : i \in 1..Len(CurElement.steps) }

NoRunner == [cog |-> 0, client |-> 0, waitFor |-> <<>>, failAfter |-> <<>>]
NoRejection == [innerIndex |-> -1, stepIndex |-> -1]

----------------------------------------------------------------------------
(* Timer (services/timer) *)

NewTimer == [passed |-> 0, failed |-> 0, skipped |-> 0]
addPassedStep(t, n) == [t EXCEPT !.passed = @ + n]
addFailedStep(t, n) == [t EXCEPT !.failed = @ + n]
addSkippedStep(t, n) == [t EXCEPT !.skipped = @ + n]

----------------------------------------------------------------------------
Init ==
  /\ version \in {"single", "batch"}
  /\ files \in Inputs
  \* A directory that holds exactly one scenario file is parsed into the same
  \* list as that file given by name: it is no input of its own.
  /\ isDirectory = (Len(files) # 1)
  /\ version = "single" => ~isDirectory
  /\ scenarios = <<>>
  /\ pc = "parse"
  /\ cur = 0
  /\ index = 0
  /\ stepRunner = NoRunner
  /\ status = [t \in {} |-> "pending"]
  /\ arrival = <<>>
  /\ outcomes = <<>>
  /\ rejection = NoRejection
  /\ abortedAt = <<>>
  /\ timers = <<>>
  /\ overallTimer = NewTimer
  /\ exitCode = 0
  /\ scenarioState = <<>>
  /\ inflight = {}
  /\ rpcLog = EmptyBag
  /\ skipped = {}
  /\ stopCalls = 0
  /\ sessions = EmptyBag
  /\ setupError = FALSE
  /\ thrown = FALSE

----------------------------------------------------------------------------
(* Setup: lines 175-204 (batch), 39-47 (single) *)

\* Mutant of SetupCatch: the catch block reports the error but does not
\* return, so run() goes on.
SetupCatch_NoReturn ==
  /\ exitCode' = 1
  /\ setupError' = TRUE
  /\ pc' = IF version = "batch" THEN "coerce" ELSE "scenario"

\* The catch block of the setup try: report, set the exit code, return.
SetupCatch ==
  /\ exitCode' = 1
  /\ setupError' = TRUE
  /\ pc' = "returned"

\* The steps of a sequence of plan elements (or of delimited runs), in order.
RECURSIVE FlatSteps(_)
FlatSteps(plan) ==
  IF plan = <<>> THEN <<>> ELSE Head(plan).steps \o FlatSteps(Tail(plan))

\* The lengths of the runs a scenario file delimits: 1 for a step on its own,
\* N for N consecutive steps marked parallel.
RunsOf(file) == [e \in DOMAIN file |-> Len(file[e].steps)]

\* Mutant of Optimizer: the last member of every group is left out.
RECURSIVE Optimizer_DropsLastOfGroup(_, _)
Optimizer_DropsLastOfGroup(steps, runs) ==
  IF runs = <<>> THEN <<>>
  ELSE LET n == Head(runs)
       IN << [group |-> n > 1,
              steps |-> SubSeq(steps, 1, IF n > 1 THEN n - 1 ELSE n)] >>
            \o Optimizer_DropsLastOfGroup(SubSeq(steps, n + 1, Len(steps)), Tail(runs))

\* Scenario plan optimizer: walks the flat step list and turns each delimited
\* run into one plan element, a group when the run has several steps.
RECURSIVE Optimizer(_, _)
Optimizer(steps, runs) ==
  IF runs = <<>> THEN <<>>
  ELSE LET n == Head(runs)
       IN << [group |-> n > 1, steps |-> SubSeq(steps, 1, n)] >>
            \o Optimizer(SubSeq(steps, n + 1, Len(steps)), Tail(runs))

\* new Scenario({fromFile: ...}) (lines 328-332, 340-346, 40): the flat step
\* list of the file and the optimized plan derived from it.
NewScenario(file) ==
  [steps |-> FlatSteps(file),
   optimizedSteps |-> Optimizer(FlatSteps(file), RunsOf(file))]

\* parseScenarioFiles (lines 316-350) / new Scenario (line 40).  A directory
\* without .crank.yml files throws; so may the Scenario constructor.
ParseScenarioFiles ==
  /\ pc = "parse"
  /\ \/ /\ Len(files) > 0
        /\ scenarios' = [i \in 1..Len(files) |-> NewScenario(files[i])]
        /\ status' = [t \in UnitsOf(scenarios') |-> "pending"]
        /\ scenarioState' = [i \in 1..Len(files) |-> "PENDING"]
        /\ abortedAt' = [i \in 1..Len(files) |-> -1]
        /\ pc' = "attach"
        /\ UNCHANGED << exitCode, setupError >>
     \/ /\ SetupCatch
        /\ UNCHANGED << scenarios, status, scenarioState, abortedAt >>
  /\ UNCHANGED << version, isDirectory, files, cur, index, stepRunner, arrival,
                 outcomes, rejection, timers, overallTimer, inflight, rpcLog,
                 skipped, stopCalls, sessions, thrown >>

\* The connectors referenced by the steps of all scenarios (_.flatten, line 180).
CogsOf(scns) ==
  UNION { { st.cog : st \in Range(scns[s].steps) } : s \in 1..Len(scns) }

\* CogManager.decorateStepsWithClients: every step gets the client of its cog.
Decorated(step) == [step EXCEPT !.client = step.cog]

WithClients(scns) ==
  [s \in 1..Len(scns) |->
     [steps |-> [i \in 1..Len(scns[s].steps) |-> Decorated(scns[s].steps[i])],
      optimizedSteps |->
        [e \in 1..Len(scns[s].optimizedSteps) |->
           LET el == scns[s].optimizedSteps[e]
           IN [group |-> el.group,
               steps |-> [i \in 1..Len(el.steps) |-> Decorated(el.steps[i])]]]]]

\* _.flatten(scenarios.map(s => s.steps)) (line 180): the steps of all
\* scenarios in one list.
RECURSIVE AllSteps(_)
AllSteps(scns) ==
  IF scns = <<>> THEN <<>>
  ELSE Head(scns).steps \o AllSteps(Tail(scns))

\* Mutant of AttachSessions: a session is started for every step, whether
\* or not its connector already has one.
AttachSessions_PerStep(sess, steps) ==
  sess (+) [c \in { st.cog : st \in Range(steps) } |->
              Cardinality({ i \in DOMAIN steps : steps[i].cog = c })]

\* CogManager.decorateStepsWithClients, session side: for the distinct
\* connectors referenced by `steps` a session is created on first reference
\* and reused thereafter.
AttachSessions(sess, steps) ==
  sess (+) SetToBag({ st.cog : st \in Range(steps) } \ BagToSet(sess))

\* Mutant of DecorateStepsWithClients: the call is not awaited, run() goes on
\* while no client has been attached yet.
DecorateStepsWithClients_NotAwaited ==
  /\ pc = "attach"
  /\ pc' = IF version = "batch" THEN "coerce" ELSE "scenario"
  /\ UNCHANGED << abortedAt, version, isDirectory, files, scenarios, cur, index,
                 stepRunner, status, arrival, outcomes, rejection, timers,
                 overallTimer, exitCode, scenarioState, inflight, rpcLog,
                 skipped, stopCalls, sessions, setupError, thrown >>

\* await this.cogManager.decorateStepsWithClients(...) (lines 179-182, 41).
\* On failure (unknown connector, authentication) some sessions may exist.
DecorateStepsWithClients ==
  /\ pc = "attach"
  /\ \/ /\ scenarios' = WithClients(scenarios)
        /\ sessions' = AttachSessions(sessions, AllSteps(scenarios))
        /\ pc' = IF version = "batch" THEN "coerce" ELSE "scenario"
        /\ UNCHANGED << exitCode, setupError >>
     \/ /\ SetupCatch
        /\ sessions' \in { SetToBag(S) : S \in SUBSET CogsOf(scenarios) \ { CogsOf(scenarios) } }
        /\ UNCHANGED scenarios
  /\ UNCHANGED << abortedAt, version, isDirectory, files, cur, index, stepRunner, status,
                 arrival, outcomes, rejection, timers, overallTimer,
                 scenarioState, inflight, rpcLog, skipped, stopCalls, thrown >>

\* Coerce types on steps (lines 206-216); coerceProtoStepTypes may throw, which
\* makes run() reject.
CoerceTypes ==
  /\ pc = "coerce"
  /\ \/ pc' = "scenario" /\ UNCHANGED thrown
     \/ pc' = "threw" /\ thrown' = TRUE
  /\ UNCHANGED << abortedAt, version, isDirectory, files, scenarios, cur, index, stepRunner,
                 status, arrival, outcomes, rejection, timers, overallTimer,
                 exitCode, scenarioState, inflight, rpcLog, skipped, stopCalls,
                 sessions, setupError >>

----------------------------------------------------------------------------
(* Step Execution Engine: StepAwareCommand.runStep / runSteps *)

\* new RunnerStep({...}) for a group, batch revision (lines 229-237): the cog
\* and client of the first member, each member's own waitFor and failAfter.
GroupRunnerBatch(step) ==
  [cog |-> step[1].cog, client |-> step[1].client,
   waitFor |-> [i \in 1..Len(step) |-> step[i].waitFor],
   failAfter |-> [i \in 1..Len(step) |-> step[i].failAfter]]

\* new RunnerStep({...}) for a group, single-scenario revision (lines 56-62):
\* no waitFor / failAfter is passed, so every sub-step gets the defaults.
GroupRunnerSingle(step) ==
  [cog |-> step[1].cog, client |-> step[1].client,
   waitFor |-> [i \in 1..Len(step) |-> 0],
   failAfter |-> [i \in 1..Len(step) |-> 0]]

\* A single step is handed to runStep as it is (lines 242, 67).
SingleRunner(step) ==
  [cog |-> step.cog, client |-> step.client,
   waitFor |-> << step.waitFor >>, failAfter |-> << step.failAfter >>]

\* Mutant of RunStepsResult: the responses are handed back in the order they
\* arrived in.
RunStepsResult_ArrivalOrder(arr, n) == arr

\* What runSteps settles with: one response per sub-step, in declared order,
\* whatever the order the responses arrived in.
RunStepsResult(arr, n) ==
  [i \in 1..n |-> CHOOSE r \in Range(arr) : r.sub = i]

\* The record of the RPC of sub-step i of plan element e of scenario s, issued
\* for `runner`: the client it goes through, the delay and deadline applied.
Rpc(s, e, i, runner) ==
  [scn |-> s, elem |-> e, sub |-> i, client |-> runner.client,
   waitFor |-> runner.waitFor[i], failAfter |-> runner.failAfter[i]]

\* Start of the mapSeries callback for plan element `index` (lines 225-238,
\* 242): the runner is built and runStep/runSteps begins every sub-step.  A
\* sub-step without delay has its RPC issued at once, the others wait.
RunElement ==
  /\ pc = "element"
  /\ index < Len(Plan(cur))
  /\ stepRunner' = IF CurElement.group
                     THEN IF version = "batch" THEN GroupRunnerBatch(CurElement.steps)
                                               ELSE GroupRunnerSingle(CurElement.steps)
                     ELSE SingleRunner(CurElement.steps[1])
  /\ LET now == { t \in CurUnits : stepRunner'.waitFor[t[3]] = 0 }
     IN /\ status' = [t \in DOMAIN status |->
                        IF t \in now THEN "inflight"
                        ELSE IF t \in CurUnits THEN "waiting" ELSE status[t]]
        /\ inflight' = inflight \cup now
        /\ rpcLog' = rpcLog (+) SetToBag({ Rpc(t[1], t[2], t[3], stepRunner') : t \in now })
  /\ arrival' = <<>>
  /\ outcomes' = <<>>
  /\ pc' = "await"
  /\ UNCHANGED << abortedAt, version, isDirectory, files, scenarios, cur, index, rejection,
                 timers, overallTimer, exitCode, scenarioState,
                 skipped, stopCalls, sessions, setupError, thrown >>

\* The waitFor delay of sub-step i is over: its RPC is issued through the
\* runner's client.
IssueRpc(i) ==
  /\ pc = "await"
  /\ <<cur, index + 1, i>> \in CurUnits
  /\ status[<<cur, index + 1, i>>] = "waiting"
  /\ status' = [status EXCEPT ![<<cur, index + 1, i>>] = "inflight"]
  /\ inflight' = inflight \cup { <<cur, index + 1, i>> }
  /\ rpcLog' = rpcLog (+) SetToBag({ Rpc(cur, index + 1, i, stepRunner) })
  /\ UNCHANGED << abortedAt, version, isDirectory, files, scenarios, pc, cur, index,
                 stepRunner, arrival, outcomes, rejection, timers, overallTimer,
                 exitCode, scenarioState, skipped, stopCalls, sessions,
                 setupError, thrown >>

\* The connector answers the RPC of sub-step i with outcome o.
Respond(i, o) ==
  /\ pc = "await"
  /\ <<cur, index + 1, i>> \in CurUnits
  /\ status[<<cur, index + 1, i>>] = "inflight"
  /\ status' = [status EXCEPT ![<<cur, index + 1, i>>] = "done"]
  /\ inflight' = inflight \ { <<cur, index + 1, i>> }
  /\ arrival' = Append(arrival, [sub |-> i, outcome |-> o, timeout |-> FALSE])
  /\ UNCHANGED << abortedAt, version, isDirectory, files, scenarios, pc, cur, index,
                 stepRunner, outcomes, rejection, timers, overallTimer, exitCode,
                 scenarioState, rpcLog, skipped, stopCalls, sessions, setupError,
                 thrown >>

\* failAfter of sub-step i elapses before the response: the call is abandoned
\* (it stays in flight on the transport) and the outcome is FAILED.
Timeout(i) ==
  /\ pc = "await"
  /\ <<cur, index + 1, i>> \in CurUnits
  /\ status[<<cur, index + 1, i>>] = "inflight"
  /\ stepRunner.failAfter[i] > 0
  /\ status' = [status EXCEPT ![<<cur, index + 1, i>>] = "done"]
  /\ arrival' = Append(arrival, [sub |-> i, outcome |-> "FAILED", timeout |-> TRUE])
  /\ UNCHANGED << abortedAt, version, isDirectory, files, scenarios, pc, cur, index,
                 stepRunner, outcomes, rejection, timers, overallTimer, exitCode,
                 scenarioState, inflight, rpcLog, skipped, stopCalls, sessions,
                 setupError, thrown >>

\* The response of an abandoned call arrives at last; nobody waits for it.
LateResponse(t) ==
  /\ t \in inflight
  /\ status[t] = "done"
  /\ inflight' = inflight \ { t }
  /\ UNCHANGED << abortedAt, version, isDirectory, files, scenarios, pc, cur, index,
                 stepRunner, status, arrival, outcomes, rejection, timers,
                 overallTimer, exitCode, scenarioState, rpcLog, skipped,
                 stopCalls, sessions, setupError, thrown >>

\* Mutant of Settled: runSteps settles as soon as one sub-step has produced a
\* non-PASSED outcome (short-circuit on first failure).
Settled_FirstFailure ==
  \/ \A t \in CurUnits : status[t] = "done"
  \/ \E r \in Range(arrival) : r.outcome # "PASSED"

\* runStep / runSteps has settled: every sub-step has produced an outcome.
Settled == \A t \in CurUnits : status[t] = "done"

\* The value runStep resolves/rejects with (one response) or runSteps
\* resolves/rejects with (the response array).
SettledWith == RunStepsResult(arrival, Len(CurElement.steps))

----------------------------------------------------------------------------
(* Run Coordinator: lines 219-289 (batch), 50-101 (single) *)

\* Outer mapSeries callback begins for the next scenario (lines 220-224, 50-51).
StartScenario ==
  /\ pc = "scenario"
  /\ cur < Len(scenarios)
  /\ cur' = cur + 1
  /\ index' = 0
  /\ timers' = Append(timers, NewTimer)
  /\ scenarioState' = [scenarioState EXCEPT ![cur + 1] = "RUNNING"]
  /\ pc' = "element"
  /\ UNCHANGED << abortedAt, version, isDirectory, files, scenarios, stepRunner, status,
                 arrival, outcomes, rejection, overallTimer, exitCode, inflight,
                 rpcLog, skipped, stopCalls, sessions, setupError, thrown >>

\* Mutant of ElementPassed: runStep/runSteps is not awaited, the element is
\* counted and resolved while its calls are still open.
ElementPassed_NoAwait ==
  /\ pc = "await"
  /\ outcomes' = <<>>
  /\ timers' = [timers EXCEPT ![cur] = addPassedStep(@, Len(CurElement.steps))]
  /\ index' = index + 1
  /\ arrival' = <<>>
  /\ stepRunner' = NoRunner
  /\ pc' = "element"
  /\ UNCHANGED << abortedAt, version, isDirectory, files, scenarios, cur, status,
                 rejection, overallTimer, exitCode, scenarioState, inflight,
                 rpcLog, skipped, stopCalls, sessions, setupError, thrown >>

\* try-branch after the await (lines 238-244, 63-69): count and resolve().
ElementPassed ==
  /\ pc = "await"
  /\ Settled
  /\ \A r \in Range(arrival) : r.outcome = "PASSED"
  /\ outcomes' = SettledWith
  /\ timers' = [timers EXCEPT ![cur] = addPassedStep(@, Len(CurElement.steps))]
  /\ index' = index + 1
  /\ arrival' = <<>>
  /\ stepRunner' = NoRunner
  /\ pc' = "element"
  /\ UNCHANGED << abortedAt, version, isDirectory, files, scenarios, cur, status, rejection,
                 overallTimer, exitCode, scenarioState, inflight, rpcLog, skipped,
                 stopCalls, sessions, setupError, thrown >>

\* Mutant of FailureAccounting: a failed group is counted as failed with all
\* its members, passed ones included.
FailureAccounting_AllFailed(timer, e, isArray) ==
  IF isArray THEN addFailedStep(timer, Len(e)) ELSE addFailedStep(timer, 1)

\* Lines 247-254 (72-79): account a failure `e` into the scenario Timer.
FailureAccounting(timer, e, isArray) ==
  IF isArray
  THEN LET failures == SelectSeq(e, LAMBDA r : r.outcome # "PASSED")
       IN addFailedStep(addPassedStep(timer, Len(e) - Len(failures)), Len(failures))
  ELSE addFailedStep(timer, 1)

\* Lines 256-259 (81-84): the object the element's promise is rejected with.
Rejection(e, isArray, idx) ==
  [innerIndex |-> IF isArray THEN Len(e) ELSE 0, stepIndex |-> idx]

\* Mutant of ElementFailed: the catch-branch calls resolve() instead of
\* reject(), so mapSeries goes on with the next plan element.
ElementFailed_Resolves ==
  /\ pc = "await"
  /\ Settled
  /\ \E r \in Range(arrival) : r.outcome # "PASSED"
  /\ outcomes' = SettledWith
  /\ timers' = [timers EXCEPT ![cur] =
                   FailureAccounting(@, SettledWith, CurElement.group)]
  /\ exitCode' = 1
  /\ abortedAt' = [abortedAt EXCEPT ![cur] = index]
  /\ index' = index + 1
  /\ arrival' = <<>>
  /\ stepRunner' = NoRunner
  /\ pc' = "element"
  /\ UNCHANGED << version, isDirectory, files, scenarios, cur, status, rejection,
                 overallTimer, scenarioState, inflight, rpcLog, skipped,
                 stopCalls, sessions, setupError, thrown >>

\* Mutant of ElementFailed: the catch-branch leaves process.exitCode alone.
ElementFailed_NoExitCode ==
  /\ pc = "await"
  /\ Settled
  /\ \E r \in Range(arrival) : r.outcome # "PASSED"
  /\ outcomes' = SettledWith
  /\ timers' = [timers EXCEPT ![cur] =
                   FailureAccounting(@, SettledWith, CurElement.group)]
  /\ rejection' = Rejection(SettledWith, CurElement.group, index)
  /\ abortedAt' = [abortedAt EXCEPT ![cur] = index]
  /\ arrival' = <<>>
  /\ stepRunner' = NoRunner
  /\ pc' = "rejected"
  /\ UNCHANGED << version, isDirectory, files, scenarios, cur, index, status,
                 overallTimer, exitCode, scenarioState, inflight, rpcLog, skipped,
                 stopCalls, sessions, setupError, thrown >>

\* Mutant of ElementFailed: the catch-branch runs the failed element once
\* more instead of rejecting.
ElementFailed_Retries ==
  /\ pc = "await"
  /\ Settled
  /\ \E r \in Range(arrival) : r.outcome # "PASSED"
  /\ arrival' = <<>>
  /\ stepRunner' = NoRunner
  /\ pc' = "element"
  /\ UNCHANGED << version, isDirectory, files, scenarios, cur, index, status,
                 outcomes, rejection, abortedAt, timers, overallTimer, exitCode,
                 scenarioState, inflight, rpcLog, skipped, stopCalls, sessions,
                 setupError, thrown >>

\* Mutant of ElementFailed: the catch-branch accounts the failure but calls
\* neither resolve() nor reject(), so the element's promise never settles.
ElementFailed_NeverSettles ==
  /\ pc = "await"
  /\ Settled
  /\ \E r \in Range(arrival) : r.outcome # "PASSED"
  /\ outcomes' = SettledWith
  /\ timers' = [timers EXCEPT ![cur] =
                   FailureAccounting(@, SettledWith, CurElement.group)]
  /\ exitCode' = 1
  /\ abortedAt' = [abortedAt EXCEPT ![cur] = index]
  /\ arrival' = <<>>
  /\ stepRunner' = NoRunner
  /\ pc' = "unsettled"
  /\ UNCHANGED << version, isDirectory, files, scenarios, cur, index, status,
                 rejection, overallTimer, scenarioState, inflight, rpcLog,
                 skipped, stopCalls, sessions, setupError, thrown >>

\* catch-branch (lines 246-260, 71-85): runStep/runSteps rejected.
ElementFailed ==
  /\ pc = "await"
  /\ Settled
  /\ \E r \in Range(arrival) : r.outcome # "PASSED"
  /\ outcomes' = SettledWith
  /\ timers' = [timers EXCEPT ![cur] =
                   FailureAccounting(@, SettledWith, CurElement.group)]
  /\ exitCode' = 1
  /\ rejection' = Rejection(SettledWith, CurElement.group, index)
  /\ abortedAt' = [abortedAt EXCEPT ![cur] = index]
  /\ arrival' = <<>>
  /\ stepRunner' = NoRunner
  /\ pc' = "rejected"
  /\ UNCHANGED << version, isDirectory, files, scenarios, cur, index, status,
                 overallTimer, scenarioState, inflight, rpcLog, skipped,
                 stopCalls, sessions, setupError, thrown >>

\* Mutant of ScenarioPassed: the overall Timer is fed the scenario's step count.
ScenarioPassed_CountsSteps ==
  /\ pc = "element"
  /\ index = Len(Plan(cur))
  /\ overallTimer' = IF version = "batch"
                       THEN addPassedStep(overallTimer, UnitCount(Plan(cur)))
                       ELSE overallTimer
  /\ scenarioState' = [scenarioState EXCEPT ![cur] = "COMPLETED"]
  /\ pc' = "print"
  /\ UNCHANGED << abortedAt, version, isDirectory, files, scenarios, cur, index,
                 stepRunner, status, arrival, outcomes, rejection, timers,
                 exitCode, inflight, rpcLog, skipped, stopCalls, sessions,
                 setupError, thrown >>

\* .then(() => overallTimer.addPassedStep()) (lines 262-263); in the single
\* revision the mapSeries promise just resolves.
ScenarioPassed ==
  /\ pc = "element"
  /\ index = Len(Plan(cur))
  /\ overallTimer' = IF version = "batch" THEN addPassedStep(overallTimer, 1)
                                           ELSE overallTimer
  /\ scenarioState' = [scenarioState EXCEPT ![cur] = "COMPLETED"]
  /\ pc' = "print"
  /\ UNCHANGED << abortedAt, version, isDirectory, files, scenarios, cur, index, stepRunner,
                 status, arrival, outcomes, rejection, timers, exitCode, inflight,
                 rpcLog, skipped, stopCalls, sessions, setupError, thrown >>

\* The forEach of lines 266-277 (88-99) over optimizedSteps.slice(stepIndex):
\* the <<element, sub>> pairs it marks as skipped.  k is the 1-based position
\* of the element visited next, inner the current value of innerIndex.
RECURSIVE SkipLoop(_, _, _)
SkipLoop(plan, k, inner) ==
  IF k > Len(plan) THEN {}
  ELSE IF plan[k].group
       THEN { <<k, i>> : i \in (inner + 1)..Len(plan[k].steps) }
              \cup SkipLoop(plan, k + 1, 0)
       ELSE { <<k, 1>> } \cup SkipLoop(plan, k + 1, inner)

\* Mutant of SkipRemaining: after the skip marking the rejection is thrown on,
\* which ends the outer mapSeries and run() with it.
SkipRemaining_Rethrows ==
  /\ pc = "rejected"
  /\ LET marks == SkipLoop(Plan(cur), rejection.stepIndex + 1, rejection.innerIndex)
     IN /\ skipped' = skipped \cup { <<cur, m[1], m[2]>> : m \in marks }
        /\ timers' = [timers EXCEPT ![cur] = addSkippedStep(@, Cardinality(marks))]
  /\ overallTimer' = IF version = "batch" THEN addFailedStep(overallTimer, 1)
                                           ELSE overallTimer
  /\ scenarioState' = [scenarioState EXCEPT ![cur] = "ABORTED"]
  /\ rejection' = NoRejection
  /\ outcomes' = <<>>
  /\ pc' = "threw"
  /\ thrown' = TRUE
  /\ UNCHANGED << abortedAt, version, isDirectory, files, scenarios, cur, index,
                 stepRunner, status, arrival, exitCode, inflight,
                 rpcLog, stopCalls, sessions, setupError >>

\* .catch(({stepIndex, innerIndex}) => ...) (lines 264-278, 87-100).
SkipRemaining ==
  /\ pc = "rejected"
  /\ LET marks == SkipLoop(Plan(cur), rejection.stepIndex + 1, rejection.innerIndex)
     IN /\ skipped' = skipped \cup { <<cur, m[1], m[2]>> : m \in marks }
        /\ timers' = [timers EXCEPT ![cur] = addSkippedStep(@, Cardinality(marks))]
  /\ overallTimer' = IF version = "batch" THEN addFailedStep(overallTimer, 1)
                                           ELSE overallTimer
  /\ scenarioState' = [scenarioState EXCEPT ![cur] = "ABORTED"]
  /\ rejection' = NoRejection
  /\ outcomes' = <<>>
  /\ pc' = "print"
  /\ UNCHANGED << abortedAt, version, isDirectory, files, scenarios, cur, index, stepRunner,
                 status, arrival, exitCode, inflight, rpcLog, stopCalls,
                 sessions, setupError, thrown >>

\* timer.printTime(...) (lines 279, 101) ends the scenario's callback.
PrintTime ==
  /\ pc = "print"
  /\ pc' = IF version = "batch" THEN "scenario" ELSE "ran"
  /\ UNCHANGED << abortedAt, version, isDirectory, files, scenarios, cur, index, stepRunner,
                 status, arrival, outcomes, rejection, timers, overallTimer,
                 exitCode, scenarioState, inflight, rpcLog, skipped, stopCalls,
                 sessions, setupError, thrown >>

\* The outer mapSeries is through; overall summary (lines 282-288); run() returns.
BatchDone ==
  /\ pc = "scenario"
  /\ cur = Len(scenarios)
  /\ pc' = "ran"
  /\ UNCHANGED << abortedAt, version, isDirectory, files, scenarios, cur, index, stepRunner,
                 status, arrival, outcomes, rejection, timers, overallTimer,
                 exitCode, scenarioState, inflight, rpcLog, skipped, stopCalls,
                 sessions, setupError, thrown >>

\* Mutant of stopAllCogs: raises an error when there is no session to stop.
stopAllCogs_FailsWhenEmpty(sess) ==
  [sessions |-> sess (-) sess, error |-> (sess = EmptyBag)]

\* CogManager.stopAllCogs: every live session is ended, best-effort; nothing
\* is raised to the caller.
stopAllCogs(sess) ==
  [sessions |-> sess (-) sess, error |-> FALSE]

\* Mutant of Finally: the teardown is done at the end of run() instead of in
\* finally(), so it is reached only when run() gets to its last line.
Finally_AtEndOfRun ==
  /\ pc = "ran"
  /\ stopCalls' = stopCalls + 1
  /\ sessions' = EmptyBag
  /\ inflight' = {}
  /\ pc' = "exited"
  /\ UNCHANGED << abortedAt, version, isDirectory, files, scenarios, cur, index,
                 stepRunner, status, arrival, outcomes, rejection, timers,
                 overallTimer, exitCode, scenarioState, rpcLog, skipped,
                 setupError, thrown >>

\* async finally() (lines 291-293, 104-106), called by the command framework
\* once run() has returned or thrown: CogManager.stopAllCogs() ends every
\* session, and with it whatever call was still open on it.
Finally ==
  /\ pc \in {"ran", "returned", "threw"}
  /\ stopCalls' = stopCalls + 1
  /\ sessions' = stopAllCogs(sessions).sessions
  /\ thrown' = (thrown \/ stopAllCogs(sessions).error)
  /\ inflight' = {}
  /\ pc' = "exited"
  /\ UNCHANGED << abortedAt, version, isDirectory, files, scenarios, cur, index, stepRunner,
                 status, arrival, outcomes, rejection, timers, overallTimer,
                 exitCode, scenarioState, rpcLog, skipped, setupError >>

----------------------------------------------------------------------------
Next ==
  \/ ParseScenarioFiles
  \/ DecorateStepsWithClients
  \/ CoerceTypes
  \/ StartScenario
  \/ RunElement
  \/ \E i \in 1..MaxUnits : IssueRpc(i)
  \/ \E i \in 1..MaxUnits, o \in Outcomes : Respond(i, o)
  \/ \E i \in 1..MaxUnits : Timeout(i)
  \/ \E t \in inflight : LateResponse(t)
  \/ ElementPassed
  \/ ElementFailed
  \/ ScenarioPassed
  \/ SkipRemaining
  \/ PrintTime
  \/ BatchDone
  \/ Finally

Spec == Init /\ [][Next]_vars

\* A dispatched RPC produces an outcome: a response or the expiry of failAfter.
RpcOutcome ==
  \E i \in 1..MaxUnits : (\E o \in Outcomes : Respond(i, o)) \/ Timeout(i)

\* A step of the command itself: a continuation that is ready to run, or the
\* end of a waitFor delay.
ProgramStep ==
  \/ ParseScenarioFiles
  \/ DecorateStepsWithClients
  \/ CoerceTypes
  \/ StartScenario
  \/ RunElement
  \/ \E i \in 1..MaxUnits : IssueRpc(i)
  \/ ElementPassed
  \/ ElementFailed
  \/ ScenarioPassed
  \/ SkipRemaining
  \/ PrintTime
  \/ BatchDone
  \/ Finally

\* The event loop runs every continuation that is ready and every timer that
\* is due; every dispatched RPC eventually produces an outcome.
FairSpec == Spec /\ WF_vars(ProgramStep) /\ WF_vars(RpcOutcome)

----------------------------------------------------------------------------
(* Properties *)

ScenarioIds == 1..Len(scenarios)

\* The sub-steps of scenario s, and those of its plan elements after position k.
UnitsOfScenario(s) == { t \in DOMAIN status : t[1] = s }
UnitsAfter(s, k) == { t \in UnitsOfScenario(s) : t[2] > k }

TimerSum(t) == t.passed + t.failed + t.skipped

\* C1: after a scenario abort, when the scenario's run has finished, its Timer
\* has passed + failed + skipped = the number of step-units of its plan.
C1_AbortAccountsEveryUnit ==
  \A s \in ScenarioIds :
    scenarioState[s] = "ABORTED" => TimerSum(timers[s]) = UnitCount(Plan(s))

\* C2: when a single (non-group) step at plan index k fails, it is counted once,
\* as failed, and only the plan elements after k are marked skipped.
C2_SingleFailureSkipsOnlyLater ==
  \A s \in ScenarioIds :
    (scenarioState[s] = "ABORTED" /\ ~Plan(s)[abortedAt[s] + 1].group) =>
      /\ timers[s].failed = 1
      /\ { t \in skipped : t[1] = s } = UnitsAfter(s, abortedAt[s] + 1)
      /\ timers[s].skipped = Cardinality(UnitsAfter(s, abortedAt[s] + 1))

\* C3: once a plan element of a scenario has failed, no plan element of that
\* scenario with a larger index is ever executed (no delay begun, no RPC
\* issued); once the scenario is ABORTED those elements are marked skipped.
C3_NoExecutionAfterFailure ==
  \A s \in ScenarioIds :
    abortedAt[s] >= 0 =>
      \A t \in UnitsAfter(s, abortedAt[s] + 1) :
        /\ status[t] = "pending"
        /\ \A r \in BagToSet(rpcLog) : ~(r.scn = s /\ r.elem = t[2])
        /\ scenarioState[s] = "ABORTED" => t \in skipped

\* C3 witness: the run is over and a scenario aborted before its last element.
C3_Witness ==
  /\ pc = "exited"
  /\ \E s \in ScenarioIds :
       /\ scenarioState[s] = "ABORTED"
       /\ UnitsAfter(s, abortedAt[s] + 1) # {}

\* C4: plan elements execute strictly in sequence: an element of a scenario is
\* begun only when every sub-step of the elements before it has its outcome,
\* and the RPCs in flight for one scenario all belong to one plan element.
C4_StrictSequence ==
  /\ \A s \in ScenarioIds :
       \A t \in UnitsOfScenario(s), u \in UnitsOfScenario(s) :
         (u[2] > t[2] /\ status[u] # "pending") => status[t] = "done"
  /\ \A t \in inflight, u \in inflight : t[1] = u[1] => t[2] = u[2]

\* C4 witness: a group is in flight as the second element of its plan.
C4_Witness ==
  \E t \in DOMAIN status, u \in DOMAIN status :
    /\ t[1] = u[1] /\ t[2] = 2 /\ u[2] = 2 /\ t[3] # u[3]
    /\ status[t] = "inflight" /\ status[u] = "inflight"

\* The run is over (run() returned or threw, with or without teardown done).
RunOver == pc \in {"ran", "returned", "threw", "exited"}

\* C5: scenarios run one at a time in input order, and a failed scenario does
\* not abort the batch: a scenario is started only when the one before it is
\* COMPLETED or ABORTED, and a batch that started ends with every scenario
\* COMPLETED or ABORTED.
C5_BatchRunsEveryScenario ==
  /\ \A s \in ScenarioIds :
       (s > 1 /\ scenarioState[s] # "PENDING") =>
         scenarioState[s - 1] \in {"COMPLETED", "ABORTED"}
  /\ \A s \in ScenarioIds : scenarioState[s] = "RUNNING" => s = cur
  /\ (RunOver /\ \E s \in ScenarioIds : scenarioState[s] # "PENDING") =>
       \A s \in ScenarioIds : scenarioState[s] \in {"COMPLETED", "ABORTED"}

\* C5 witness: the first scenario aborted and the second one completed.
C5_Witness ==
  /\ pc = "ran"
  /\ Len(scenarios) >= 2
  /\ scenarioState[1] = "ABORTED"
  /\ scenarioState[2] = "COMPLETED"

NumberIn(state) == Cardinality({ s \in ScenarioIds : scenarioState[s] = state })

\* C6: the overall Timer counts one unit per scenario: passed = scenarios
\* COMPLETED, failed = scenarios ABORTED, skipped = 0, and when the batch has
\* finished passed + failed = the number of scenarios.
C6_OverallTimerPerScenario ==
  version = "batch" =>
    /\ overallTimer.passed = NumberIn("COMPLETED")
    /\ overallTimer.failed = NumberIn("ABORTED")
    /\ overallTimer.skipped = 0
    /\ pc = "ran" => overallTimer.passed + overallTimer.failed = Len(scenarios)

\* C6 witness: the first scenario aborted at its second step, the second one
\* completed: one failed unit and one passed unit.
C6_Witness ==
  /\ version = "batch"
  /\ pc = "ran"
  /\ Len(scenarios) = 2
  /\ abortedAt[1] = 1
  /\ scenarioState[2] = "COMPLETED"
  /\ overallTimer = [passed |-> 1, failed |-> 1, skipped |-> 0]

\* Some step, group member or scenario has failed and the failure was handled.
SomeFailure ==
  \/ pc = "rejected"
  \/ \E s \in DOMAIN timers : timers[s].failed > 0
  \/ \E s \in ScenarioIds : scenarioState[s] = "ABORTED"

\* C7: the failure flag (process.exitCode) is set as soon as a step, group
\* member or scenario has failed or the setup failed, stays set, and is
\* otherwise 0: at the end of the run it is non-zero exactly when something
\* failed.
C7_ExitFlag ==
  /\ exitCode \in {0, 1}
  /\ exitCode = 1 <=> (setupError \/ SomeFailure \/ \E s \in ScenarioIds : abortedAt[s] >= 0)

\* C7 witness: the run is over, a scenario aborted, a later one completed, and
\* the flag is still set.
C7_Witness ==
  /\ pc = "exited"
  /\ ~setupError
  /\ \E s \in ScenarioIds, u \in ScenarioIds :
       s < u /\ scenarioState[s] = "ABORTED" /\ scenarioState[u] = "COMPLETED"
  /\ exitCode = 1

\* C8: after a setup-stage error the batch does not start: run() has returned,
\* no sub-step was begun, no RPC issued, no Timer exists or was changed, no
\* scenario left PENDING, and the exit code is 1.
C8_SetupErrorAbortsBatch ==
  setupError =>
    /\ pc \in {"returned", "exited"}
    /\ exitCode = 1
    /\ rpcLog = EmptyBag
    /\ inflight = {}
    /\ \A t \in DOMAIN status : status[t] = "pending"
    /\ \A s \in ScenarioIds : scenarioState[s] = "PENDING"
    /\ timers = <<>>
    /\ overallTimer = NewTimer
    /\ skipped = {}

\* C8 witness: attaching the clients failed for a batch of two scenarios and
\* the run is over.
C8_Witness ==
  /\ setupError
  /\ Len(scenarios) = 2
  /\ pc = "exited"

\* C9: the teardown (stopAllCogs) runs exactly once on every exit path: when
\* run() has returned or thrown it has not run yet and is the next thing to
\* happen, afterwards it has run once, and when it runs no sub-step is still
\* waiting for its outcome.
C9_TeardownExactlyOnce ==
  /\ pc \in {"ran", "returned", "threw"} => (stopCalls = 0 /\ ENABLED Finally)
  /\ pc = "exited" <=> stopCalls = 1
  /\ stopCalls \in {0, 1}
  /\ pc # "exited" => ENABLED Next
  /\ stopCalls = 1 => \A t \in DOMAIN status : status[t] \in {"pending", "done"}

\* C9 witness: teardown has run after a run in which a group member failed.
C9_Witness ==
  /\ pc = "exited"
  /\ stopCalls = 1
  /\ \E s \in ScenarioIds :
       scenarioState[s] = "ABORTED" /\ Plan(s)[abortedAt[s] + 1].group

\* The responses form what an n-member group must yield: n of them, the i-th
\* one being the response of sub-step i.
InDeclaredOrder(e, n) == Len(e) = n /\ \A i \in 1..n : e[i].sub = i

\* C10: runSteps on an N-member group yields exactly N outcomes, the i-th one
\* belonging to declared sub-step i, whatever the completion order and the
\* individual results.
C10_GroupYieldsDeclaredOrder ==
  /\ (pc = "await" /\ Settled /\ CurElement.group) =>
       /\ InDeclaredOrder(SettledWith, Len(CurElement.steps))
       /\ \A i \in 1..Len(CurElement.steps) : SettledWith[i] \in Range(arrival)
  /\ (pc = "rejected" /\ CurElement.group) =>
       InDeclaredOrder(outcomes, Len(CurElement.steps))
  /\ (pc = "element" /\ index > 0 /\ Plan(cur)[index].group) =>
       InDeclaredOrder(outcomes, Len(Plan(cur)[index].steps))

\* C10 witness: a group has settled whose second member answered first, one
\* member timed out and another one passed.
C10_Witness ==
  /\ pc = "await"
  /\ Settled
  /\ CurElement.group
  /\ arrival[1].sub = 2
  /\ \E r \in Range(arrival) : r.timeout
  /\ \E r \in Range(arrival) : r.outcome = "PASSED"

\* The RPCs logged for sub-step t, and the sub-steps of plan element e of
\* scenario s.
RpcsOf(t) == { r \in BagToSet(rpcLog) : << r.scn, r.elem, r.sub >> = t }
UnitsOfElement(s, e) == { t \in UnitsOfScenario(s) : t[2] = e }

\* C11: a group does not short-circuit on first failure: after a non-PASSED
\* outcome of one sub-step every other sub-step can still be started and
\* answered, the group settles only when all N sub-steps have an outcome, and
\* a group that failed has had every member's RPC issued and answered.
C11_GroupRunsAllMembers ==
  /\ (pc = "await" /\ CurElement.group
        /\ \E r \in Range(arrival) : r.outcome # "PASSED") =>
       \A t \in CurUnits :
         /\ status[t] = "waiting" => ENABLED IssueRpc(t[3])
         /\ status[t] = "inflight" => ENABLED Respond(t[3], "PASSED")
  /\ (pc = "await" /\ CurElement.group /\ Settled) =>
       /\ \A t \in CurUnits : status[t] = "done"
       /\ Len(arrival) = Len(CurElement.steps)
  /\ \A s \in ScenarioIds :
       (abortedAt[s] >= 0 /\ Plan(s)[abortedAt[s] + 1].group) =>
         /\ \A t \in UnitsOfElement(s, abortedAt[s] + 1) :
              status[t] = "done" /\ RpcsOf(t) # {}
         /\ (s = cur /\ pc = "rejected") =>
              Len(outcomes) = Len(Plan(s)[abortedAt[s] + 1].steps)

\* C11 witness: a three-member group has settled; its first outcome was FAILED
\* and the two other members produced their outcomes after it.
C11_Witness ==
  /\ pc = "await"
  /\ Settled
  /\ Len(arrival) = 3
  /\ arrival[1].outcome = "FAILED"
  /\ arrival[2].outcome = "PASSED"
  /\ arrival[3].outcome = "ERROR"
  /\ \E i \in 2..3 : stepRunner.waitFor[arrival[i].sub] > 0

\* Number of step-units in the plan elements of scenario s before position e.
UnitsBefore(s, e) == Cardinality({ t \in UnitsOfScenario(s) : t[2] < e })

\* Number of non-PASSED responses in a response array.
NonPassed(e) == Cardinality({ i \in DOMAIN e : e[i].outcome # "PASSED" })

\* C12: a sub-step whose failAfter elapses gets outcome FAILED while the group
\* still hands back the outcome of every member; a group of N members failing
\* with f non-PASSED outcomes adds N-f passed, f failed and 0 skipped to the
\* scenario Timer, and none of its members is marked skipped afterwards.
C12_GroupFailureAccounting ==
  /\ \A r \in Range(arrival) \cup Range(outcomes) : r.timeout => r.outcome = "FAILED"
  /\ (pc = "await" /\ CurElement.group /\ Settled) =>
       /\ Len(SettledWith) = Len(CurElement.steps)
       /\ \A r \in Range(arrival) : SettledWith[r.sub] = r
  /\ (pc = "rejected" /\ CurElement.group) =>
       LET N == Len(CurElement.steps)
           f == NonPassed(outcomes)
       IN /\ f >= 1
          /\ timers[cur] = [passed |-> UnitsBefore(cur, index + 1) + N - f,
                            failed |-> f, skipped |-> 0]
  /\ \A s \in ScenarioIds :
       (scenarioState[s] = "ABORTED" /\ Plan(s)[abortedAt[s] + 1].group) =>
         /\ timers[s].failed >= 1
         /\ timers[s].passed + timers[s].failed =
              UnitsBefore(s, abortedAt[s] + 1) + Len(Plan(s)[abortedAt[s] + 1].steps)
         /\ timers[s].skipped = Cardinality(UnitsAfter(s, abortedAt[s] + 1))
         /\ skipped \cap UnitsOfElement(s, abortedAt[s] + 1) = {}

\* C12 witness: the plan is one group of three; only its third member timed
\* out, the two others passed, and the Timer reads {passed 2, failed 1,
\* skipped 0}.
C12_Witness ==
  /\ pc = "rejected"
  /\ Len(Plan(cur)) = 1
  /\ Len(outcomes) = 3
  /\ outcomes[1].outcome = "PASSED"
  /\ outcomes[2].outcome = "PASSED"
  /\ outcomes[3].timeout
  /\ timers[cur] = [passed |-> 2, failed |-> 1, skipped |-> 0]

\* C13: no call is retried: over the whole run every sub-step has its RPC
\* issued at most once -- exactly once when it was begun and its delay is
\* over, never when it was not -- also after it failed, erred or timed out.
C13_NoRetry ==
  /\ \A r \in BagToSet(rpcLog) : CopiesIn(r, rpcLog) = 1
  /\ \A t \in DOMAIN status :
       /\ status[t] \in {"inflight", "done"} => Cardinality(RpcsOf(t)) = 1
       /\ status[t] \in {"pending", "waiting"} => RpcsOf(t) = {}
  /\ BagCardinality(rpcLog) =
       Cardinality({ t \in DOMAIN status : status[t] \in {"inflight", "done"} })

\* C13 witness: the run is over; a scenario was aborted by a single step that
\* did not pass, after an element that passed, and that step's RPC was issued
\* once.
C13_Witness ==
  /\ pc = "exited"
  /\ \E s \in ScenarioIds :
       /\ scenarioState[s] = "ABORTED"
       /\ abortedAt[s] = 1
       /\ ~Plan(s)[2].group
       /\ Cardinality(RpcsOf(<< s, 2, 1 >>)) = 1
       /\ CopiesIn(CHOOSE r \in RpcsOf(<< s, 2, 1 >>) : TRUE, rpcLog) = 1

\* C14: the CogManager never holds more than one live session per connector
\* id, however many steps of however many scenarios reference it: after the
\* clients are attached there is exactly one per referenced connector, and
\* attaching once more for the steps of any scenario (an overlapping
\* connector set) changes nothing.
C14_OneSessionPerConnector ==
  /\ \A c \in BagToSet(sessions) : CopiesIn(c, sessions) = 1
  /\ BagToSet(sessions) \subseteq CogsOf(scenarios)
  /\ pc \notin {"parse", "attach", "returned", "exited"} =>
       BagToSet(sessions) = CogsOf(scenarios)
  /\ \A s \in ScenarioIds :
       LET again == AttachSessions(sessions, FlatSteps(Plan(s)))
       IN /\ \A c \in BagToSet(again) : CopiesIn(c, again) = 1
          /\ \A c \in BagToSet(sessions) : CopiesIn(c, again) = CopiesIn(c, sessions)
          /\ pc \notin {"parse", "attach", "returned", "exited"} => again = sessions

\* C14 witness: two scenarios are being run, both reference connector 1, one
\* of them twice and connector 2 as well; there is one session for each of
\* the two connectors.
C14_Witness ==
  /\ pc = "element"
  /\ Len(scenarios) = 2
  /\ \E i \in DOMAIN AllSteps(scenarios), j \in DOMAIN AllSteps(scenarios) :
       i # j /\ AllSteps(scenarios)[i].cog = 1 /\ AllSteps(scenarios)[j].cog = 1
  /\ \A s \in ScenarioIds : 1 \in { st.cog : st \in Range(FlatSteps(Plan(s))) }
  /\ sessions = SetToBag({1, 2})

\* C15: stopAllCogs is safe when no session exists -- as in finally() after a
\* run that failed while parsing -- and idempotent: it leaves no live session
\* and raises nothing, and a second call yields the same again.
C15_ShutdownSafeAndIdempotent ==
  /\ stopAllCogs(EmptyBag) = [sessions |-> EmptyBag, error |-> FALSE]
  /\ LET once == stopAllCogs(sessions)
         twice == stopAllCogs(once.sessions)
     IN /\ once.sessions = EmptyBag
        /\ ~once.error
        /\ twice = once
  /\ (pc = "returned" /\ scenarios = <<>>) => (sessions = EmptyBag /\ ENABLED Finally)
  /\ pc = "exited" => sessions = EmptyBag
  /\ (pc = "exited" /\ setupError) => ~thrown

\* C15 witness: parsing failed, so no session was ever created, and finally()
\* has run the teardown without an error.
C15_Witness ==
  /\ pc = "exited"
  /\ setupError
  /\ scenarios = <<>>
  /\ stopCalls = 1
  /\ sessions = EmptyBag
  /\ ~thrown

\* C16: the optimized plan of every scenario is a total, order-preserving
\* partition of its flat step list: flattening the plan gives the step list
\* itself (no step dropped, duplicated or moved), no plan element is empty,
\* and the plan has as many step-units as the list has steps.
C16_PlanPartitionsStepList ==
  \A s \in ScenarioIds :
    /\ FlatSteps(Plan(s)) = scenarios[s].steps
    /\ UnitCount(Plan(s)) = Len(scenarios[s].steps)
    /\ \A e \in DOMAIN Plan(s) :
         /\ Len(Plan(s)[e].steps) >= 1
         /\ Plan(s)[e].group <=> Len(Plan(s)[e].steps) > 1
    /\ Len(Plan(s)) = Len(files[s])

\* C16 witness: a scenario of three steps whose last two are marked parallel
\* and differ from each other was parsed into a plan of a step and a group.
C16_Witness ==
  \E s \in ScenarioIds :
    /\ Len(scenarios[s].steps) = 3
    /\ Len(Plan(s)) = 2
    /\ ~Plan(s)[1].group
    /\ Plan(s)[2].group
    /\ Plan(s)[2].steps[1] # Plan(s)[2].steps[2]
    /\ Plan(s)[2].steps = SubSeq(scenarios[s].steps, 2, 3)

\* The member step an RPC was issued for.
MemberOf(r) == Plan(r.scn)[r.elem].steps[r.sub]

\* C17: the runner built for a group has one operation per member, and the
\* delay and deadline applied to the i-th RPC of a group are the waitFor and
\* failAfter of the i-th member step.
C17_SubStepKeepsOwnTiming ==
  /\ (pc = "await" /\ CurElement.group) =>
       /\ Len(stepRunner.waitFor) = Len(CurElement.steps)
       /\ Len(stepRunner.failAfter) = Len(CurElement.steps)
  /\ \A r \in BagToSet(rpcLog) :
       Plan(r.scn)[r.elem].group =>
         /\ r.waitFor = MemberOf(r).waitFor
         /\ r.failAfter = MemberOf(r).failAfter

\* C18: every RPC of a group is issued through the client of its own
\* member's connector, also when the members reference different connectors.
C18_SubStepUsesOwnClient ==
  \A r \in BagToSet(rpcLog) :
    Plan(r.scn)[r.elem].group =>
      /\ r.client = MemberOf(r).client
      /\ r.client = MemberOf(r).cog

\* C19: no RPC is issued before the client handles are attached: once the
\* first scenario can start, every step of every scenario of the batch has
\* its client set and the setup did not fail; every sub-step that has begun
\* has a client, every RPC went through a client, and that client's session
\* is live until the teardown.
C19_ClientAttachedBeforeRpc ==
  /\ pc \in {"scenario", "element", "await", "rejected", "print", "ran"} =>
       /\ ~setupError
       /\ \A st \in Range(AllSteps(scenarios)) : st.client # 0
       /\ \A s \in ScenarioIds : \A st \in Range(FlatSteps(Plan(s))) : st.client # 0
  /\ \A t \in DOMAIN status :
       status[t] # "pending" => Plan(t[1])[t[2]].steps[t[3]].client # 0
  /\ pc = "await" => stepRunner.client # 0
  /\ \A r \in BagToSet(rpcLog) :
       /\ r.client # 0
       /\ pc # "exited" => r.client \in BagToSet(sessions)

\* C19 witness: the second scenario of a batch has an RPC in flight, issued
\* through the client of connector 2.
C19_Witness ==
  /\ pc = "await"
  /\ cur = 2
  /\ \E t \in inflight : t[1] = 2 /\ status[t] = "inflight"
  /\ \E r \in BagToSet(rpcLog) : r.scn = 2 /\ r.client = 2

\* The transitions of a scenario's state.
Lifecycle ==
  { << "PENDING", "RUNNING" >>, << "RUNNING", "COMPLETED" >>, << "RUNNING", "ABORTED" >> }

\* C20: every scenario starts PENDING and moves only PENDING -> RUNNING ->
\* COMPLETED or ABORTED; and, every dispatched RPC producing an outcome, the
\* run eventually ends and, unless the setup failed or run() threw before the
\* scenario loop, it ends with every scenario of the batch COMPLETED or
\* ABORTED, whatever steps fail.
C20_ScenarioLifecycleEnds ==
  /\ [][ /\ scenarioState = <<>> =>
             \A s \in DOMAIN scenarioState' : scenarioState'[s] = "PENDING"
         /\ \A s \in DOMAIN scenarioState :
             /\ s \in DOMAIN scenarioState'
             /\ scenarioState'[s] # scenarioState[s] =>
                  << scenarioState[s], scenarioState'[s] >> \in Lifecycle ]_vars
  /\ <>(/\ pc = "exited"
        /\ \/ setupError
           \/ thrown
           \/ /\ cur = Len(scenarios)
              /\ \A s \in ScenarioIds : scenarioState[s] \in {"COMPLETED", "ABORTED"})

\* C20 witness: a batch of three scenarios has run to its end; the first and
\* the third were aborted, the second completed.
C20_Witness ==
  /\ pc = "exited"
  /\ Len(scenarios) = 3
  /\ scenarioState = << "ABORTED", "COMPLETED", "ABORTED" >>

====
